---- MODULE Spec2Model ----
(***************************************************************************)
(* A model of rooster's changelog document model and merge algorithm       *)
(* (src/src/rooster/_changelog.py).                                        *)
(*                                                                         *)
(* A document is the list `Document.document.children` of marko blocks.    *)
(* A block is a record [kind, level, children]:                            *)
(*   kind     "heading" | "paragraph" | "list" | "html_block" |            *)
(*            "blank_line"   (a parsed marko.block.BlankLine instance) |   *)
(*            "BlankLine"    (the class object marko.block.BlankLine that  *)
(*                            the code itself puts into block lists)       *)
(*   level    the heading level, 0 for every other kind                    *)
(*   children the rendered inline children of a heading (the title is the  *)
(*            first one), the items of a list, the text of the others      *)
(***************************************************************************)
EXTENDS Integers, Sequences, FiniteSets, TLC

VARIABLES elements, before, section, raised, inserts, request, target,
          extracted, wanted, found, changelog, entry, entries, history, http,
          bumped

vars == <<elements, before, section, raised, inserts, request, target,
          extracted, wanted, found, changelog, entry, entries, history, http,
          bumped>>

\* ------------------------------------------------------------------ bounds
MaxDocLen == 2
MaxInserts == 2
MaxNewInserts == 3
MaxPullRequests == 2

\* the longest list of blocks handed to Section.from_elements
MaxElements == 4

\* the inserts that precede a lookup
MaxLookupInserts == 1

\* the longest changelog text, in lines
MaxLines == 4

\* the calls of insert_version_section with one and the same section
MaxReinserts == 3

MaxBumpPullRequests == 2

\* ------------------------------------------------------------------ blocks
Block(kind, level, children) == [kind |-> kind, level |-> level, children |-> children]

Heading(level, children) == Block("heading", level, children)

Paragraph(text) == Block("paragraph", 0, <<text>>)

List(items) == Block("list", 0, items)

HTMLBlock(text) == Block("html_block", 0, <<text>>)

\* a BlankLine instance, as marko.parse produces it
BlankLineInstance == Block("blank_line", 0, <<>>)

\* the class object marko.block.BlankLine, as the code inserts it
BlankLine == Block("BlankLine", 0, <<>>)

\* isinstance(element, marko.block.Heading)
IsHeading(element) == element.kind = "heading"

\* a blank-line marker of either provenance
IsBlankMarker(element) == element.kind \in {"blank_line", "BlankLine"}

\* new_heading(text, level): parse "#"*level + " " + text and take the block
new_heading(text, level) == Heading(level, <<text>>)

NoChanges == HTMLBlock("<!-- No changes -->")

\* ---------------------------------------------------------------- versions
\* packaging.version.Version(s) on the strings of the model: the release
\* tuple, or InvalidVersion
InvalidVersion == <<>>

Version(s) ==
    CASE s = "0.1.0" -> <<0, 1, 0>>
      [] s = "0.2.0" -> <<0, 2, 0>>
      [] s = "0.10.0" -> <<0, 10, 0>>
      [] OTHER -> InvalidVersion

\* Version.__lt__ on release tuples of length 3
VersionLt(a, b) ==
    \/ a[1] < b[1]
    \/ a[1] = b[1] /\ a[2] < b[2]
    \/ a[1] = b[1] /\ a[2] = b[2] /\ a[3] < b[3]

\* the least element of a set of positions (str.index, list.index: the
\* first occurrence)
Min(S) == CHOOSE x \in S : \A y \in S : x <= y

\* ------------------------------------------------------------ list helpers
\* list.pop(index) with a 0-based index
ListPop(list, index) ==
    SubSeq(list, 1, index) \o SubSeq(list, index + 2, Len(list))

\* list.insert(index, x) with a 0-based index; an index past the end appends
ListInsert(list, index, x) ==
    LET at == IF index > Len(list) THEN Len(list) ELSE index
    IN SubSeq(list, 1, at) \o <<x>> \o SubSeq(list, at + 1, Len(list))

\* the value of the loop variable after `for i, _ in enumerate(list)` ran to
\* the end: the last index, or the earlier value 0 when the list is empty
LastIndex(list) == IF Len(list) = 0 THEN 0 ELSE Len(list) - 1

\* ------------------------------------------------- insert_version_section
\* ScanExisting with the title test on the heading element itself, which
\* never equals the version string
RECURSIVE ScanExisting_never(_, _, _, _, _)
ScanExisting_never(els, version, level, k, remove) ==
    IF k > Len(els)
    THEN [remove |-> remove, i |-> LastIndex(els), raised |-> FALSE]
    ELSE LET element == els[k]
             appended == IF remove # <<>> THEN Append(remove, k - 1) ELSE remove
         IN IF IsHeading(element) /\ element.level = level
            THEN IF element.children = <<>>
                 THEN [remove |-> appended, i |-> k - 1, raised |-> TRUE]
                 ELSE IF appended # <<>>
                 THEN [remove |-> SubSeq(appended, 1, Len(appended) - 1),
                       i |-> k - 1, raised |-> FALSE]
                 ELSE ScanExisting_never(els, version, level, k + 1, appended)
            ELSE ScanExisting_never(els, version, level, k + 1, appended)

\* The scan for an existing version (first loop).  k is the 1-based position
\* of the element examined, so python's i is k - 1; remove = <<>> is None.
RECURSIVE ScanExisting(_, _, _, _, _)
ScanExisting(els, version, level, k, remove) ==
    IF k > Len(els)
    THEN [remove |-> remove, i |-> LastIndex(els), raised |-> FALSE]
    ELSE LET element == els[k]
             appended == IF remove # <<>> THEN Append(remove, k - 1) ELSE remove
         IN IF IsHeading(element) /\ element.level = level
            THEN IF element.children = <<>>
                 THEN \* element.children[0] raises IndexError
                      [remove |-> appended, i |-> k - 1, raised |-> TRUE]
                 ELSE IF appended # <<>>
                 THEN \* the next version heading: remove.pop(); break
                      [remove |-> SubSeq(appended, 1, Len(appended) - 1),
                       i |-> k - 1, raised |-> FALSE]
                 ELSE IF element.children[1] = version
                 THEN ScanExisting(els, version, level, k + 1, <<k - 1>>)
                 ELSE ScanExisting(els, version, level, k + 1, appended)
            ELSE ScanExisting(els, version, level, k + 1, appended)

\* for i, to_remove in enumerate(sorted(remove)): elements.pop(to_remove - i)
RECURSIVE PopRemoved(_, _, _)
PopRemoved(els, remove, j) ==
    IF j > Len(remove) THEN els
    ELSE PopRemoved(ListPop(els, remove[j] - (j - 1)), remove, j + 1)

\* ScanPosition that puts an unparseable new version at index 0
RECURSIVE ScanPosition_top(_, _, _, _)
ScanPosition_top(els, compare_version, level, k) ==
    IF compare_version = InvalidVersion THEN 0
    ELSE IF k > Len(els) THEN LastIndex(els)
    ELSE LET element == els[k]
         IN IF ~IsHeading(element) THEN ScanPosition_top(els, compare_version, level, k + 1)
            ELSE IF element.level # level THEN ScanPosition_top(els, compare_version, level, k + 1)
            ELSE IF element.children = <<>> THEN k - 1
            ELSE IF Version(element.children[1]) = InvalidVersion THEN k - 1
            ELSE IF VersionLt(Version(element.children[1]), compare_version) THEN k - 1
            ELSE ScanPosition_top(els, compare_version, level, k + 1)

\* ScanPosition that skips an unparseable heading instead of stopping at it
RECURSIVE ScanPosition_skip(_, _, _, _)
ScanPosition_skip(els, compare_version, level, k) ==
    IF k > Len(els) THEN LastIndex(els)
    ELSE LET element == els[k]
         IN IF ~IsHeading(element) THEN ScanPosition_skip(els, compare_version, level, k + 1)
            ELSE IF element.level # level THEN ScanPosition_skip(els, compare_version, level, k + 1)
            ELSE IF compare_version = InvalidVersion THEN k - 1
            ELSE IF element.children = <<>>
            THEN ScanPosition_skip(els, compare_version, level, k + 1)
            ELSE IF Version(element.children[1]) = InvalidVersion
            THEN ScanPosition_skip(els, compare_version, level, k + 1)
            ELSE IF VersionLt(Version(element.children[1]), compare_version) THEN k - 1
            ELSE ScanPosition_skip(els, compare_version, level, k + 1)

\* The scan for an insertion position (second loop); the result is python's i
RECURSIVE ScanPosition(_, _, _, _)
ScanPosition(els, compare_version, level, k) ==
    IF k > Len(els) THEN LastIndex(els)
    ELSE LET element == els[k]
         IN IF ~IsHeading(element) THEN ScanPosition(els, compare_version, level, k + 1)
            ELSE IF element.level # level THEN ScanPosition(els, compare_version, level, k + 1)
            ELSE IF compare_version = InvalidVersion THEN k - 1
            ELSE IF element.children = <<>> THEN k - 1
            ELSE IF Version(element.children[1]) = InvalidVersion THEN k - 1
            ELSE IF VersionLt(Version(element.children[1]), compare_version) THEN k - 1
            ELSE ScanPosition(els, compare_version, level, k + 1)

\* for offset, child in enumerate(section.children): insert(i + 2 + offset, child)
RECURSIVE InsertChildren(_, _, _, _)
InsertChildren(els, i, children, offset) ==
    IF offset >= Len(children) THEN els
    ELSE InsertChildren(ListInsert(els, i + 2 + offset, children[offset + 1]),
                        i, children, offset + 1)

\* the splice at index i (lines 202-212)
Splice(els, i, sec) ==
    LET withHeading == ListInsert(ListInsert(els, i, sec.element), i + 1, BlankLine)
        withChildren == InsertChildren(withHeading, i, sec.children, 0)
    IN IF sec.children = <<>>
       THEN ListInsert(ListInsert(withChildren, i + 2, BlankLine), i + 2, NoChanges)
       ELSE withChildren

\* insert_version_section without `i = remove[0]`: the splice uses the index
\* the scan stopped at
insert_version_section_stale_i(els, sec, level) ==
    LET scan == ScanExisting(els, sec.version, level, 1, <<>>)
    IN IF scan.raised THEN [elements |-> els, raised |-> TRUE]
       ELSE IF scan.remove # <<>>
       THEN [elements |-> Splice(PopRemoved(els, scan.remove, 1), scan.i, sec),
             raised |-> FALSE]
       ELSE [elements |-> Splice(els, ScanPosition(els, Version(sec.version), level, 1), sec),
             raised |-> FALSE]

\* Changelog.insert_version_section: the new block list, or raised
insert_version_section(els, sec, level) ==
    LET scan == ScanExisting(els, sec.version, level, 1, <<>>)
    IN IF scan.raised THEN [elements |-> els, raised |-> TRUE]
       ELSE IF scan.remove # <<>>
       THEN [elements |-> Splice(PopRemoved(els, scan.remove, 1), scan.remove[1], sec),
             raised |-> FALSE]
       ELSE [elements |-> Splice(els, ScanPosition(els, Version(sec.version), level, 1), sec),
             raised |-> FALSE]

\* Changelog.new()
Changelog_new == <<new_heading("Changelog", 1), BlankLine, BlankLine>>

\* ------------------------------------------------ from_pull_requests
\* str.__lt__ on the strings of the model (code point order)
StringsInOrder == <<"Another test", "Test", "author", "bob", "dependabot">>

StrRank(str) == CHOOSE r \in 1..Len(StringsInOrder) : StringsInOrder[r] = str

StrLt(a, b) == StrRank(a) < StrRank(b)

\* PullRequest(title, number, labels, author) of the repository owner/repo
PullRequest(title, number, labels, author) ==
    [title |-> title, number |-> number, labels |-> labels, author |-> author]

\* PullRequest.url
Url(pull_request) ==
    "https://github.com/owner/repo/pull/" \o ToString(pull_request.number)

\* PullRequest.__lt__
PullRequestLt(a, b) == a.number < b.number

\* str(version) of a packaging Version with a three-part release
VersionStr(version) ==
    ToString(version[1]) \o "." \o ToString(version[2]) \o "." \o ToString(version[3])

\* to_cargo_version(version), for a version that is not a pre-release
to_cargo_version(version) ==
    ToString(version[1]) \o "." \o ToString(version[2]) \o "." \o ToString(version[3])

\* the elements of a sequence, as a set
Range(seq) == {seq[p] : p \in 1..Len(seq)}

\* sorted(set(pull_requests)): ascending PullRequest.__lt__
RECURSIVE SortedByNumber(_)
SortedByNumber(prs) ==
    IF prs = {} THEN <<>>
    ELSE LET first == CHOOSE x \in prs : \A y \in prs : ~PullRequestLt(y, x)
         IN <<first>> \o SortedByNumber(prs \ {first})

\* an insertion that puts a record before the records of the same title
RECURSIVE InsertByTitle_unstable(_, _)
InsertByTitle_unstable(sorted, pr) ==
    IF sorted = <<>> THEN <<pr>>
    ELSE IF ~StrLt(Head(sorted).title, pr.title) THEN <<pr>> \o sorted
    ELSE <<Head(sorted)>> \o InsertByTitle_unstable(Tail(sorted), pr)

\* sorted(pull_requests, key=lambda pr: pr.title): a stable sort
RECURSIVE InsertByTitle(_, _)
InsertByTitle(sorted, pr) ==
    IF sorted = <<>> THEN <<pr>>
    ELSE IF StrLt(pr.title, Head(sorted).title) THEN <<pr>> \o sorted
    ELSE <<Head(sorted)>> \o InsertByTitle(Tail(sorted), pr)

RECURSIVE SortedByTitle(_)
SortedByTitle(prs) ==
    IF prs = <<>> THEN <<>>
    ELSE InsertByTitle(SortedByTitle(SubSeq(prs, 1, Len(prs) - 1)), prs[Len(prs)])

\* an ordered dict is a sequence of [key, value] records
Keys(dict) == {dict[p].key : p \in 1..Len(dict)}

Get(dict, key) == dict[CHOOSE p \in 1..Len(dict) : dict[p].key = key].value

\* dict[key] = value: a present key keeps its place, a new key goes last
Set(dict, key, value) ==
    IF key \in Keys(dict)
    THEN [p \in 1..Len(dict) |->
            IF dict[p].key = key THEN [key |-> key, value |-> value] ELSE dict[p]]
    ELSE Append(dict, [key |-> key, value |-> value])

\* section_labels after the backwards-compatibility loop over
\* config.changelog_sections (label -> section)
RECURSIVE MergeSectionLabels(_, _, _)
MergeSectionLabels(section_labels, changelog_sections, k) ==
    IF k > Len(changelog_sections) THEN section_labels
    ELSE LET label == changelog_sections[k].key
             sec == changelog_sections[k].value
             labels == IF sec \in Keys(section_labels) THEN Get(section_labels, sec) ELSE <<>>
         IN MergeSectionLabels(Set(section_labels, sec, Append(labels, label)),
                               changelog_sections, k + 1)

\* sections = {section: [] for section in section_labels.keys()}
EmptyBuckets(section_labels) ==
    [p \in 1..Len(section_labels) |-> [key |-> section_labels[p].key, value |-> <<>>]]

\* a label loop that looks at the ignored labels only
Skipped_ignore_only(config, pull_request, without_sections) ==
    \E label \in pull_request.labels : label \in config.changelog_ignore_labels

\* the label loop with its else: no label is ignored or excluded
Skipped(config, pull_request, without_sections) ==
    \E label \in pull_request.labels :
        label \in config.changelog_ignore_labels \/ label \in without_sections

\* a loop without the break: the last selected section that intersects
RECURSIVE MatchingSection_last(_, _, _, _)
MatchingSection_last(section_labels, pull_request, only_sections, k) ==
    IF k > Len(section_labels) THEN 0
    ELSE LET later == MatchingSection_last(section_labels, pull_request, only_sections, k + 1)
         IN IF later # 0 THEN later
            ELSE IF only_sections # {} /\ section_labels[k].key \notin only_sections THEN 0
            ELSE IF pull_request.labels \cap Range(section_labels[k].value) # {} THEN k
            ELSE 0

\* the first section, in mapping order, that is selected and whose labels
\* intersect those of the pull request; 0 when the loop ends without break
RECURSIVE MatchingSection(_, _, _, _)
MatchingSection(section_labels, pull_request, only_sections, k) ==
    IF k > Len(section_labels) THEN 0
    ELSE IF only_sections # {} /\ section_labels[k].key \notin only_sections
    THEN MatchingSection(section_labels, pull_request, only_sections, k + 1)
    ELSE IF pull_request.labels \cap Range(section_labels[k].value) # {} THEN k
    ELSE MatchingSection(section_labels, pull_request, only_sections, k + 1)

\* a classification that puts every unmatched record in the fallback bucket,
\* whatever only_sections is
RECURSIVE Classify_relocate(_, _, _, _, _, _, _, _)
Classify_relocate(config, section_labels, sections, other_section, sorted, only_sections, without_sections, k) ==
    IF k > Len(sorted) THEN [sections |-> sections, raised |-> FALSE]
    ELSE LET pull_request == sorted[k]
             match == MatchingSection(section_labels, pull_request, only_sections, 1)
             matched == section_labels[match].key
         IN IF Skipped(config, pull_request, without_sections)
            THEN Classify_relocate(config, section_labels, sections, other_section, sorted,
                                   only_sections, without_sections, k + 1)
            ELSE IF match # 0
            THEN Classify_relocate(config, section_labels,
                                   Set(sections, matched,
                                       Append(Get(sections, matched), pull_request)),
                                   other_section, sorted, only_sections, without_sections, k + 1)
            ELSE IF "__unknown__" \in Keys(section_labels)
            THEN [sections |-> sections, raised |-> TRUE]
            ELSE Classify_relocate(config, section_labels,
                                   Set(sections, other_section,
                                       Append(Get(sections, other_section), pull_request)),
                                   other_section, sorted, only_sections, without_sections, k + 1)

\* The classification loop over sorted(set(pull_requests)).  The result is
\* the buckets, or raised: section_labels.get("__unknown__", other_section)
\* is a list when the key is configured, and a list is no dict key.
RECURSIVE Classify(_, _, _, _, _, _, _, _)
Classify(config, section_labels, sections, other_section, sorted, only_sections, without_sections, k) ==
    IF k > Len(sorted) THEN [sections |-> sections, raised |-> FALSE]
    ELSE LET pull_request == sorted[k]
             match == MatchingSection(section_labels, pull_request, only_sections, 1)
             matched == section_labels[match].key
         IN IF Skipped(config, pull_request, without_sections)
            THEN Classify(config, section_labels, sections, other_section, sorted,
                          only_sections, without_sections, k + 1)
            ELSE IF match # 0
            THEN Classify(config, section_labels,
                          Set(sections, matched, Append(Get(sections, matched), pull_request)),
                          other_section, sorted, only_sections, without_sections, k + 1)
            ELSE IF only_sections # {}
            THEN Classify(config, section_labels, sections, other_section, sorted,
                          only_sections, without_sections, k + 1)
            ELSE IF "__unknown__" \in Keys(section_labels)
            THEN [sections |-> sections, raised |-> TRUE]
            ELSE Classify(config, section_labels,
                          Set(sections, other_section,
                              Append(Get(sections, other_section), pull_request)),
                          other_section, sorted, only_sections, without_sections, k + 1)

\* config.change_template.format(pull_request=pull_request), the default one
ChangeLine(pull_request) ==
    "- " \o pull_request.title \o " ([#" \o ToString(pull_request.number)
    \o "](" \o Url(pull_request) \o "))"

\* ChangesSection.from_pull_requests: the heading and the children
ChangesSection_from_pull_requests(sec, pull_requests, level) ==
    [element |-> new_heading(sec, level),
     children |-> <<BlankLine,
                    List([p \in 1..Len(pull_requests) |-> ChangeLine(pull_requests[p])]),
                    BlankLine>>]

\* ContributorsSection.from_authors; authors is the set in iteration order
ContributorsSection_from_authors(authors, level) ==
    [element |-> new_heading("Contributors", level),
     children |-> <<BlankLine,
                    List([p \in 1..Len(authors) |->
                            "- [@" \o authors[p] \o "](https://github.com/"
                            \o authors[p] \o ")"]),
                    BlankLine>>]

\* the loop over sections.items() that omits the empty ones
RECURSIVE BucketChildren(_, _)
BucketChildren(sections, k) ==
    IF k > Len(sections) THEN <<>>
    ELSE IF sections[k].value = <<>> THEN BucketChildren(sections, k + 1)
    ELSE LET changes_section ==
                ChangesSection_from_pull_requests(
                    sections[k].key, SortedByTitle(sections[k].value), 3)
         IN <<changes_section.element>> \o changes_section.children
            \o BucketChildren(sections, k + 1)

\* an authors set that keeps the ignored authors
Authors_all(config, pull_requests) ==
    {pull_requests[p].author : p \in 1..Len(pull_requests)}

\* the authors set of from_pull_requests
Authors(config, pull_requests) ==
    {pull_requests[p].author : p \in 1..Len(pull_requests)}
        \ config.changelog_ignore_authors

\* datetime.date(year, month, day)
Date(year, month, day) == [year |-> year, month |-> month, day |-> day]

\* a decimal number padded with zeros to two digits (%m, %d)
Pad2(n) == IF n < 10 THEN "0" \o ToString(n) ELSE ToString(n)

\* a year padded with zeros to four digits (%Y)
Pad4(n) ==
    IF n < 10 THEN "000" \o ToString(n)
    ELSE IF n < 100 THEN "00" \o ToString(n)
    ELSE IF n < 1000 THEN "0" \o ToString(n)
    ELSE ToString(n)

\* release_date.strftime("%Y-%m-%d")
strftime(release_date) ==
    Pad4(release_date.year) \o "-" \o Pad2(release_date.month) \o "-" \o Pad2(release_date.day)

\* a section without the release date paragraph
from_pull_requests_nodate(config, version, pull_requests, only_sections, without_sections, level, release_date, authors_order) ==
    LET section_labels == MergeSectionLabels(config.section_labels,
                                             config.changelog_sections, 1)
        configured == EmptyBuckets(section_labels)
        other_section == IF configured # <<>> THEN "Other changes" ELSE "Changes"
        sections == Set(configured, other_section, <<>>)
        classified == Classify(config, section_labels, sections, other_section,
                               SortedByNumber(Range(pull_requests)),
                               only_sections, without_sections, 1)
        contributors ==
            IF config.changelog_contributors /\ authors_order # <<>>
            THEN LET sec == ContributorsSection_from_authors(authors_order, 3)
                 IN <<sec.element>> \o sec.children
            ELSE <<>>
        children == BucketChildren(classified.sections, 1) \o contributors
        version_str == IF config.version_format = "cargo"
                       THEN to_cargo_version(version) ELSE VersionStr(version)
    IN [raised |-> classified.raised,
        section |-> [element |-> new_heading(version_str, level),
                     title |-> version_str,
                     version |-> version_str,
                     children |-> children]]

\* VersionSection.from_pull_requests.  authors_order is the iteration order
\* of the authors set; release_date is the date (date.today() when the
\* caller gave none).  The result is the section, or raised.
from_pull_requests(config, version, pull_requests, only_sections, without_sections, level, release_date, authors_order) ==
    LET section_labels == MergeSectionLabels(config.section_labels,
                                             config.changelog_sections, 1)
        configured == EmptyBuckets(section_labels)
        other_section == IF configured # <<>> THEN "Other changes" ELSE "Changes"
        sections == Set(configured, other_section, <<>>)
        classified == Classify(config, section_labels, sections, other_section,
                               SortedByNumber(Range(pull_requests)),
                               only_sections, without_sections, 1)
        contributors ==
            IF config.changelog_contributors /\ authors_order # <<>>
            THEN LET sec == ContributorsSection_from_authors(authors_order, 3)
                 IN <<sec.element>> \o sec.children
            ELSE <<>>
        children == BucketChildren(classified.sections, 1) \o contributors
        version_str == IF config.version_format = "cargo"
                       THEN to_cargo_version(version) ELSE VersionStr(version)
        release_date_paragraph == Paragraph("Released on " \o strftime(release_date) \o ".")
    IN [raised |-> classified.raised,
        section |-> [element |-> new_heading(version_str, level),
                     title |-> version_str,
                     version |-> version_str,
                     children |-> <<release_date_paragraph, BlankLine>> \o children]]

\* --------------------------------------------------- Section.from_elements
\* cls.new(document, element, title): a section without children
Section_new(element, title) == [element |-> element, title |-> title, children |-> <<>>]

\* last_section.children.append(element); last_section is the position of
\* the section in sections, 0 for None
AppendChild(sections, last_section, element) ==
    IF last_section = 0 THEN sections
    ELSE [sections EXCEPT ![last_section].children = Append(@, element)]

\* a loop that keeps the section open across a shallower heading
RECURSIVE FromElementsLoop_open(_, _, _, _, _)
FromElementsLoop_open(els, level, k, sections, last_section) ==
    IF k > Len(els) THEN sections
    ELSE LET element == els[k]
         IN IF IsHeading(element)
            THEN IF element.level < level
                 THEN FromElementsLoop_open(els, level, k + 1, sections, last_section)
                 ELSE IF element.level > level
                 THEN FromElementsLoop_open(els, level, k + 1,
                                            AppendChild(sections, last_section, element),
                                            last_section)
                 ELSE IF element.children # <<>>
                 THEN FromElementsLoop_open(els, level, k + 1,
                                            Append(sections,
                                                   Section_new(element, element.children[1])),
                                            Len(sections) + 1)
                 ELSE FromElementsLoop_open(els, level, k + 1, sections, last_section)
            ELSE IF element.kind = "blank_line"
            THEN FromElementsLoop_open(els, level, k + 1, sections, last_section)
            ELSE FromElementsLoop_open(els, level, k + 1,
                                       AppendChild(sections, last_section, element),
                                       last_section)

\* the loop of Section.from_elements from element k on
RECURSIVE FromElementsLoop(_, _, _, _, _)
FromElementsLoop(els, level, k, sections, last_section) ==
    IF k > Len(els) THEN sections
    ELSE LET element == els[k]
         IN IF IsHeading(element)
            THEN IF element.level < level
                 THEN FromElementsLoop(els, level, k + 1, sections, 0)
                 ELSE IF element.level > level
                 THEN FromElementsLoop(els, level, k + 1,
                                       AppendChild(sections, last_section, element),
                                       last_section)
                 ELSE IF element.children # <<>>
                 THEN FromElementsLoop(els, level, k + 1,
                                       Append(sections,
                                              Section_new(element, element.children[1])),
                                       Len(sections) + 1)
                 ELSE FromElementsLoop(els, level, k + 1, sections, last_section)
            ELSE IF element.kind = "blank_line"
            THEN FromElementsLoop(els, level, k + 1, sections, last_section)
            ELSE FromElementsLoop(els, level, k + 1,
                                  AppendChild(sections, last_section, element),
                                  last_section)

\* Section.from_elements(document, elements, level)
from_elements(els, level) == FromElementsLoop(els, level, 1, <<>>, 0)

\* ----------------------------------------------------------------- inputs
VersionStrings == {"0.1.0", "0.2.0", "0.10.0", "Unreleased"}

\* the blocks of the documents read by Changelog.from_file
DocBlocks ==
    {Heading(1, <<"Changelog">>), Heading(2, <<>>), Heading(3, <<"Changes">>),
     Paragraph("text"), BlankLineInstance}
    \cup {Heading(2, <<v>>) : v \in VersionStrings}

RECURSIVE SeqsUpTo(_, _)
SeqsUpTo(S, n) ==
    IF n = 0 THEN {<<>>}
    ELSE LET shorter == SeqsUpTo(S, n - 1)
         IN shorter \cup {Append(s, x) : s \in {t \in shorter : Len(t) = n - 1}, x \in S}

\* marko merges adjacent paragraph lines and adjacent blank lines
Parsed(doc) ==
    \A p \in 1..(Len(doc) - 1) :
        doc[p].kind \in {"paragraph", "blank_line"} => doc[p + 1].kind # doc[p].kind

ParsedDocuments == {doc \in SeqsUpTo(DocBlocks, MaxDocLen) : Parsed(doc)}

\* the bodies of the version sections handed to insert_version_section
SectionBodies ==
    {<<>>,
     <<Heading(3, <<"Changes">>), BlankLine, List(<<"- entry">>), BlankLine>>}

\* the blocks of the lists handed to Section.from_elements
SectionBlocks ==
    {Heading(1, <<"Changelog">>), Heading(2, <<"0.1.0">>), Heading(2, <<>>),
     Heading(3, <<"Changes">>), Heading(3, <<>>), Heading(4, <<"Details">>),
     Paragraph("text"), List(<<"- entry">>), List(<<"- other", "- more">>),
     BlankLineInstance, BlankLine}

ElementLists == {els \in SeqsUpTo(SectionBlocks, MaxElements) : Parsed(els)}

\* the levels asked for: the versions of a document, the changes sections
\* of a version
Levels == {2, 3}

\* VersionSection(element, title, version, children); the heading always
\* carries the version (from_elements, from_pull_requests)
VersionSection(version, children, level) ==
    [element |-> new_heading(version, level), title |-> version,
     version |-> version, children |-> children]

NoSection == [element |-> BlankLine, title |-> "", version |-> "", children |-> <<>>]

Sections == {VersionSection(v, body, 2) : v \in VersionStrings, body \in SectionBodies}

\* Config(): the fields from_pull_requests reads
Config(section_labels, changelog_sections, ignore_labels, contributors, version_format) ==
    [section_labels |-> section_labels,
     changelog_sections |-> changelog_sections,
     changelog_ignore_labels |-> ignore_labels,
     changelog_ignore_authors |-> {"dependabot"},
     changelog_contributors |-> contributors,
     version_format |-> version_format]

DefaultConfig == Config(<<>>, <<>>, {}, TRUE, "pep440")

Configs ==
    {DefaultConfig,
     Config(<<>>, <<[key |-> "a", value |-> "A"], [key |-> "b", value |-> "B"]>>,
            {}, TRUE, "pep440"),
     Config(<<[key |-> "A", value |-> <<"a">>], [key |-> "__unknown__", value |-> <<"b">>]>>,
            <<>>, {}, TRUE, "cargo"),
     Config(<<[key |-> "B", value |-> <<"b", "a">>]>>, <<>>, {"skip"}, FALSE, "pep440")}

PullRequests ==
    {PullRequest("Test", 1, {}, "author"),
     PullRequest("Another test", 2, {"a", "b"}, "bob"),
     PullRequest("Test", 3, {"b"}, "dependabot"),
     PullRequest("Another test", 4, {"a", "skip"}, "author"),
     PullRequest("Another test", 5, {"a"}, "author")}

PullRequestLists == SeqsUpTo(PullRequests, MaxPullRequests)

ReleaseVersions == {<<0, 1, 0>>, <<0, 2, 0>>}

ReleaseDates == {Date(2024, 1, 2), Date(2023, 11, 30)}

\* the values of only_sections and without_sections: none, a section name,
\* a label (what the tests pass)
OnlySections == {{}, {"B"}, {"b"}}

WithoutSections == {{}, {"b"}}

\* the orders in which iterating a set can yield its elements
Orderings(S) ==
    {order \in [1..Cardinality(S) -> S] : Range(order) = S}

NoRequest ==
    [config |-> DefaultConfig, version |-> <<0, 0, 0>>, pull_requests |-> <<>>,
     only_sections |-> {}, without_sections |-> {}, release_date |-> Date(1, 1, 1)]

\* the versions and configurations of the lookups
LookupVersions == {<<0, 1, 0>>, <<0, 2, 0>>, <<0, 10, 0>>}

LookupConfigs == Configs

\* ------------------------------------------------------------------ lookup
\* VersionSection.new(document, element, title): version is the title
VersionSection_new(sec) ==
    [element |-> sec.element, title |-> sec.title, version |-> sec.title,
     children |-> sec.children]

\* Changelog.versions(level): VersionSection.from_elements of the document
versions(els, level) ==
    LET sections == from_elements(els, level)
    IN [k \in 1..Len(sections) |-> VersionSection_new(sections[k])]

\* the loop of get_version_section: the first section with the version, or
\* None (NoSection)
RECURSIVE FirstWithVersion(_, _, _)
FirstWithVersion(sections, version_str, k) ==
    IF k > Len(sections) THEN NoSection
    ELSE IF sections[k].version = version_str THEN sections[k]
    ELSE FirstWithVersion(sections, version_str, k + 1)

\* the version string that get_version_section compares with
Rendered(config, version) ==
    IF config.version_format = "cargo" THEN to_cargo_version(version)
    ELSE VersionStr(version)

\* Changelog.get_version_section(config, version)
get_version_section(els, config, version) ==
    FirstWithVersion(versions(els, 2), Rendered(config, version), 1)

\* -------------------------------------------------------------- all_entries
\* sub-sections looked for at the level of the version heading itself
sections_same_level(sec) == from_elements(sec.children, sec.element.level)

\* VersionSection.sections(): the sections nested a single level deeper
sections(sec) == from_elements(sec.children, sec.element.level + 1)

\* ListSection.entries(): one Entry per item of every list among the children
RECURSIVE ListEntries(_, _)
ListEntries(children, k) ==
    IF k > Len(children) THEN <<>>
    ELSE (IF children[k].kind = "list" THEN children[k].children ELSE <<>>)
         \o ListEntries(children, k + 1)

\* the loop of all_entries over the sections from the k-th on
RECURSIVE ExtendEntries(_, _)
ExtendEntries(subsections, k) ==
    IF k > Len(subsections) THEN <<>>
    ELSE ListEntries(subsections[k].children, 1) \o ExtendEntries(subsections, k + 1)

\* VersionSection.all_entries()
all_entries(sec) == ExtendEntries(sections(sec), 1)

\* ------------------------------------------------------------ extract_entry
\* A text is a sequence of characters; the characters of a version string
\* are kept together as one element.
NewLine == "\n"

\* the lines of the texts, without their newline
VersionLine(v) == <<"#", "#", " ", v>>

\* the text of a list of lines, each ended by a newline
RECURSIVE Join(_)
Join(lines) ==
    IF lines = <<>> THEN <<>> ELSE Head(lines) \o <<NewLine>> \o Join(Tail(lines))

\* str.index(sub) as a 1-based position, 0 when sub is not in text
Find(sub, text) ==
    LET at == {i \in 1..(Len(text) - Len(sub) + 1) : SubSeq(text, i, i + Len(sub) - 1) = sub}
    IN IF at = {} THEN 0 ELSE Min(at)

\* str.splitlines()
RECURSIVE SplitLines(_)
SplitLines(text) ==
    IF text = <<>> THEN <<>>
    ELSE LET nl == Find(<<NewLine>>, text)
         IN IF nl = 0 THEN <<text>>
            ELSE <<SubSeq(text, 1, nl - 1)>> \o SplitLines(SubSeq(text, nl + 1, Len(text)))

\* str.strip() for the blanks of the texts
RECURSIVE Strip(_)
Strip(text) ==
    IF text = <<>> THEN <<>>
    ELSE IF Head(text) = " " THEN Strip(Tail(text))
    ELSE IF text[Len(text)] = " " THEN Strip(SubSeq(text, 1, Len(text) - 1))
    ELSE text

\* parse_version(config, string): the version, None (InvalidVersion) when
\* the string is no version
parse_version(config, string) ==
    IF Len(string) = 1 THEN Version(string[1]) ELSE InvalidVersion

\* line.startswith(VERSION_HEADING_PREFIX)
StartsWithPrefix(line) == Len(line) >= 3 /\ SubSeq(line, 1, 3) = <<"#", "#", " ">>

\* get_versions_from_changelog: the versions a filter object yields
RECURSIVE ParsedVersions(_, _)
ParsedVersions(config, lines) ==
    IF lines = <<>> THEN <<>>
    ELSE LET line == Head(lines)
             parsed == parse_version(config, Strip(SubSeq(line, 3, Len(line))))
         IN (IF StartsWithPrefix(line) /\ parsed # InvalidVersion THEN <<parsed>> ELSE <<>>)
            \o ParsedVersions(config, Tail(lines))

get_versions_from_changelog(config, text) == ParsedVersions(config, SplitLines(text))

\* sorted(versions)
RECURSIVE SortedVersions(_)
SortedVersions(vs) ==
    IF vs = <<>> THEN <<>>
    ELSE LET k == CHOOSE i \in 1..Len(vs) :
                    /\ \A j \in 1..Len(vs) : ~VersionLt(vs[j], vs[i])
                    /\ \A j \in 1..(i - 1) : vs[j] # vs[i]
         IN <<vs[k]>> \o SortedVersions(SubSeq(vs, 1, k - 1) \o SubSeq(vs, k + 1, Len(vs)))

\* the first position of x in vs, 0 when absent
IndexOf(vs, x) ==
    LET at == {i \in 1..Len(vs) : vs[i] = x} IN IF at = {} THEN 0 ELSE Min(at)

\* get_previous_version(versions, version) when versions is the filter object
\* of get_versions_from_changelog: `version not in versions` consumes the
\* iterator up to the first match; [version] + versions raises TypeError for
\* an iterator; sorted() sees what is left, and list.index raises ValueError
\* when the version is not in it.
get_previous_version(vs, version) ==
    LET first == IndexOf(vs, version)
        left == SortedVersions(SubSeq(vs, first + 1, Len(vs)))
        index == IndexOf(left, version) - 1
    IN IF first = 0 THEN [raised |-> TRUE, previous |-> InvalidVersion]
       ELSE IF IndexOf(left, version) = 0 THEN [raised |-> TRUE, previous |-> InvalidVersion]
       ELSE [raised |-> FALSE,
             previous |-> IF index < 1 THEN InvalidVersion ELSE left[index]]

\* the result of extract_entry: raised, None (returned = FALSE) or the text
Outcome(called, didraise, returned, text) ==
    [called |-> called, raised |-> didraise, returned |-> returned, text |-> text]

NoEntry == Outcome(FALSE, FALSE, FALSE, <<>>)

\* extract_entry(config, changelog, version)
extract_entry(config, text, version) ==
    LET version_str == Rendered(config, version)
        heading == <<"#", "#", " ", version_str, NewLine, NewLine>>
        vs == get_versions_from_changelog(config, text)
        got == get_previous_version(vs, version)
        has_previous == got.previous # InvalidVersion
        previous_heading == <<"#", "#", " ", Rendered(config, version), NewLine, NewLine>>
        start == Find(heading, text)
        end == IF has_previous THEN Find(previous_heading, text) ELSE Len(text) + 1
    IN IF got.raised THEN Outcome(TRUE, TRUE, FALSE, <<>>)
       ELSE IF ~has_previous /\ start = 0 THEN Outcome(TRUE, FALSE, FALSE, <<>>)
       ELSE IF start = 0 THEN Outcome(TRUE, FALSE, FALSE, <<>>)
       ELSE Outcome(TRUE, FALSE, TRUE, SubSeq(text, start, end - 1))

\* the lines of the changelog texts: version headings, a deeper heading that
\* ends like one, an entry, an empty line
TextLines ==
    {VersionLine("0.1.0"), VersionLine("0.2.0"), <<"#">> \o VersionLine("0.1.0"),
     <<"-", " ", "a">>, <<>>}

Texts == {Join(lines) : lines \in SeqsUpTo(TextLines, MaxLines)}

\* the lists of blocks that are the children of a version section at level
\* 2: no heading at that level or above
ChildrenLists ==
    {els \in ElementLists : \A p \in 1..Len(els) : IsHeading(els[p]) => els[p].level > 2}

\* --------------------------------------------------- release: the bump type
\* the labels of all pull requests (labels.update in the loop)
LabelsOf(pull_requests) ==
    UNION {pull_requests[i].labels : i \in 1..Len(pull_requests)}

\* bump_type as release computes it: the user's choice, else patch, set to
\* major by the loop over major_labels and then set to minor by the loop
\* over minor_labels
bump_type(bump, major_labels, minor_labels, labels) ==
    IF bump # "" THEN bump
    ELSE LET after_major == IF major_labels \cap labels # {} THEN "major" ELSE "patch"
         IN IF minor_labels \cap labels # {} THEN "minor" ELSE after_major

\* a run of release up to the bump type: the --bump option ("" when not
\* given), the configured labels, the pull requests and the bump type
Release_run(called, bump, major_labels, minor_labels, pull_requests, type) ==
    [called |-> called, bump |-> bump, major_labels |-> major_labels,
     minor_labels |-> minor_labels, pull_requests |-> pull_requests,
     bump_type |-> type]

NoRelease == Release_run(FALSE, "", {}, {}, <<>>, "")

\* ------------------------------------------------- HttpClient._send_with_retry
MAX_RETRIES == 5

\* retry_codes and retry_exceptions as HttpClient.send passes them
RetryCodes == {429, 503, 502, 408}

RetryExceptions ==
    {"ReadTimeout", "PoolTimeout", "ConnectTimeout", "ReadError", "WriteError",
     "RemoteProtocolError", "LocalProtocolError"}

\* a response: its status code and its Retry-After header ("" when absent)
Response(status, retry_after) == [status |-> status, retry_after |-> retry_after]

\* response = None
NoResponse == Response(0, "")

\* the outcome of a call: a response that is returned or an exception that is
\* raised
Returned(response) == [kind |-> "response", response |-> response, exception |-> ""]

Raised(exception) == [kind |-> "exception", response |-> NoResponse, exception |-> exception]

NoOutcome == [kind |-> "none", response |-> NoResponse, exception |-> ""]

\* float(header) can be computed: the header is a number of seconds
IsFloat(header) == header \in {"2", "0", "-1"}

\* float(header)
FloatOf(header) ==
    CASE header = "2" -> 2
      [] header = "0" -> 0
      [] header = "-1" -> 0 - 1
      [] OTHER -> 0

\* 2**try_count
RECURSIVE Pow2(_)
Pow2(n) == IF n = 0 THEN 1 ELSE 2 * Pow2(n - 1)

\* the state of a call of _send_with_retry: where it is (pc), the locals
\* try_count, response and retry_seconds (before the jitter, which keeps the
\* sign), the jitter applied, the sends and sleeps so far (log), the outcome
\* of the last send and the result of the call
Call(pc, try_count, response, retry_seconds, jitter, log, last, result) ==
    [pc |-> pc, try_count |-> try_count, response |-> response,
     retry_seconds |-> retry_seconds, jitter |-> jitter, log |-> log,
     last |-> last, result |-> result]

NoCall == Call("idle", 0, NoResponse, 0, "none", <<>>, NoOutcome, NoOutcome)

\* try_count = 0; response = None; the first test of the while
StartCall == Call("send", 0, NoResponse, 0, "none", <<>>, NoOutcome, NoOutcome)

\* the call ends: it returns a response or an exception propagates
Finish(h, last, result) ==
    Call("done", h.try_count, h.response, h.retry_seconds, h.jitter, h.log, last, result)

\* the lines from the back-off to time.sleep: the jitter is added to a
\* positive delay, bounded below when the response at hand has the header
Delay(h, try_count, response, retry_seconds, last) ==
    Call("sleep", try_count, response, retry_seconds,
         IF retry_seconds > 0
         THEN (IF response # NoResponse /\ response.retry_after # ""
               THEN "bounded" ELSE "clamped")
         ELSE "none",
         h.log, last, NoOutcome)

\* send raised exception
OnException(h, exception) ==
    IF exception \notin RetryExceptions THEN Finish(h, Raised(exception), Raised(exception))
    ELSE IF h.try_count + 1 > MAX_RETRIES
    THEN Finish([h EXCEPT !.try_count = @ + 1], Raised(exception), Raised(exception))
    ELSE Delay(h, h.try_count + 1, h.response, Pow2(h.try_count + 1), Raised(exception))

\* a retryable response that is slept on even when the retries are used up
OnResponse_nobreak(h, response) ==
    IF response.status \notin RetryCodes
    THEN Finish([h EXCEPT !.response = response], Returned(response), Returned(response))
    ELSE IF response.retry_after # "" /\ ~IsFloat(response.retry_after)
    THEN Finish([h EXCEPT !.response = response, !.try_count = @ + 1],
                Returned(response), Raised("ValueError"))
    ELSE Delay(h, h.try_count + 1, response,
               IF response.retry_after # "" THEN FloatOf(response.retry_after)
               ELSE Pow2(h.try_count + 1),
               Returned(response))

\* send returned response.  The break leaves the loop with a response, so
\* the assertion after the loop holds and the response is returned.
OnResponse(h, response) ==
    IF response.status \notin RetryCodes
    THEN Finish([h EXCEPT !.response = response], Returned(response), Returned(response))
    ELSE IF h.try_count + 1 > MAX_RETRIES
    THEN Finish([h EXCEPT !.response = response, !.try_count = @ + 1],
                Returned(response), Returned(response))
    ELSE IF response.retry_after # "" /\ ~IsFloat(response.retry_after)
    THEN Finish([h EXCEPT !.response = response, !.try_count = @ + 1],
                Returned(response), Raised("ValueError"))
    ELSE Delay(h, h.try_count + 1, response,
               IF response.retry_after # "" THEN FloatOf(response.retry_after)
               ELSE Pow2(h.try_count + 1),
               Returned(response))

\* time.sleep(retry_seconds) and the test of the while: a negative delay
\* raises ValueError; when the loop is left the assertion needs a response
AfterSleep(h) ==
    IF h.retry_seconds < 0 THEN Finish(h, h.last, Raised("ValueError"))
    ELSE LET slept == [h EXCEPT !.log = Append(@, "sleep")]
         IN IF slept.try_count <= MAX_RETRIES THEN [slept EXCEPT !.pc = "send"]
            ELSE IF slept.response = NoResponse
            THEN Finish(slept, slept.last, Raised("AssertionError"))
            ELSE Finish(slept, slept.last, Returned(slept.response))

\* what the underlying send can do: return a response (not retryable,
\* retryable with or without a Retry-After header: seconds, zero, negative
\* or an HTTP date) or raise (retryable or not)
SendResponses ==
    {Response(200, ""), Response(404, "")}
    \cup {Response(503, h) : h \in {"", "2", "0", "-1", "Wed, 21 Oct 2015 07:28:00 GMT"}}
    \cup {Response(429, "2")}

SendExceptions == {"ReadTimeout", "ConnectError"}

\* the labels pull requests carry, the --bump option and the label
\* configuration (the defaults, and a project with two minor labels)
BumpLabels == {"breaking", "feature", "fix"}

BumpTypes == {"major", "minor", "patch", "pre"}

BumpPullRequests == {PullRequest("Change", 1, ls, "author") : ls \in SUBSET BumpLabels}

MajorLabels == {{"breaking"}}

MinorLabels == {{"feature"}, {"feature", "fix"}}

\* ------------------------------------------------------------ state machine
Init ==
    /\ elements \in ParsedDocuments \cup {Changelog_new}
    /\ before = elements
    /\ section = NoSection
    /\ raised = FALSE
    /\ inserts = 0
    /\ request = NoRequest
    /\ target = 0
    /\ extracted = <<>>
    /\ wanted = ""
    /\ found = NoSection
    /\ changelog = <<>>
    /\ entry = NoEntry
    /\ entries = <<>>
    /\ history = <<>>
    /\ http = NoCall
    /\ bumped = NoRelease

\* changelog.insert_version_section(section), at most `bound` times
Insert(bound) ==
    /\ ~raised
    /\ inserts < bound
    /\ \E sec \in Sections :
        LET result == insert_version_section(elements, sec, 2)
        IN /\ elements' = result.elements
           /\ raised' = result.raised
           /\ section' = sec
    /\ before' = elements
    /\ inserts' = inserts + 1
    /\ UNCHANGED <<request, target, extracted, wanted, found, changelog, entry, entries, history, http, bumped>>

InsertVersionSection == Insert(MaxInserts)

Next == InsertVersionSection

Spec == Init /\ [][Next]_vars

\* The changelog that starts as Changelog.new() (no changelog file exists)
InitNew ==
    /\ elements = Changelog_new
    /\ before = elements
    /\ section = NoSection
    /\ raised = FALSE
    /\ inserts = 0
    /\ request = NoRequest
    /\ target = 0
    /\ extracted = <<>>
    /\ wanted = ""
    /\ found = NoSection
    /\ changelog = <<>>
    /\ entry = NoEntry
    /\ entries = <<>>
    /\ history = <<>>
    /\ http = NoCall
    /\ bumped = NoRelease

InsertIntoNew == Insert(MaxNewInserts)

NextNew == InsertIntoNew

SpecNew == InitNew /\ [][NextNew]_vars

\* The release command on a fresh changelog, once per run: build the section
\* of the new version from the pull requests and insert it (_cli.py, release)
Release ==
    /\ ~raised
    /\ inserts = 0
    /\ \E config \in Configs, version \in ReleaseVersions,
          pull_requests \in PullRequestLists,
          only_sections \in OnlySections, without_sections \in WithoutSections,
          release_date \in ReleaseDates :
        \E authors_order \in Orderings(Authors(config, pull_requests)) :
            LET built == from_pull_requests(config, version, pull_requests,
                                            only_sections, without_sections,
                                            2, release_date, authors_order)
                result == insert_version_section(elements, built.section, 2)
            IN /\ request' = [config |-> config, version |-> version,
                              pull_requests |-> pull_requests,
                              only_sections |-> only_sections,
                              without_sections |-> without_sections,
                              release_date |-> release_date]
               /\ IF built.raised
                  THEN /\ raised' = TRUE
                       /\ section' = NoSection
                       /\ elements' = elements
                  ELSE /\ raised' = result.raised
                       /\ section' = built.section
                       /\ elements' = result.elements
    /\ before' = elements
    /\ inserts' = inserts + 1
    /\ UNCHANGED <<target, extracted, wanted, found, changelog, entry, entries, history, http, bumped>>

NextBuild == Release

SpecBuild == InitNew /\ [][NextBuild]_vars

\* The lists of blocks whose sections are extracted: the children of a
\* document (Changelog.versions) or of a version section (sections)
InitSections ==
    /\ elements \in ElementLists
    /\ before = elements
    /\ section = NoSection
    /\ raised = FALSE
    /\ inserts = 0
    /\ request = NoRequest
    /\ target = 0
    /\ extracted = <<>>
    /\ wanted = ""
    /\ found = NoSection
    /\ changelog = <<>>
    /\ entry = NoEntry
    /\ entries = <<>>
    /\ history = <<>>
    /\ http = NoCall
    /\ bumped = NoRelease

\* Section.from_elements(document, elements, level), once per list
FromElements ==
    /\ target = 0
    /\ \E level \in Levels :
        /\ target' = level
        /\ extracted' = from_elements(elements, level)
    /\ UNCHANGED <<elements, before, section, raised, inserts, request, wanted, found, changelog, entry, entries, history, http, bumped>>

\* section.all_entries() of a version section whose children are the list
AllEntries ==
    /\ target = 0
    /\ elements \in ChildrenLists
    /\ \E version \in VersionStrings :
        LET sec == VersionSection(version, elements, 2)
        IN /\ section' = sec
           /\ target' = sec.element.level + 1
           /\ extracted' = sections(sec)
           /\ entries' = all_entries(sec)
    /\ UNCHANGED <<elements, before, raised, inserts, request, wanted, found, changelog, entry, history, http, bumped>>

NextSections == FromElements \/ AllEntries

SpecSections == InitSections /\ [][NextSections]_vars

\* changelog.get_version_section(config, version), once, on a document as
\* read or after an insert
GetVersionSection ==
    /\ ~raised
    /\ target = 0
    /\ \E config \in LookupConfigs, version \in LookupVersions :
        /\ wanted' = Rendered(config, version)
        /\ found' = get_version_section(elements, config, version)
    /\ target' = 2
    /\ extracted' = versions(elements, 2)
    /\ UNCHANGED <<elements, before, section, raised, inserts, request, changelog, entry, entries, history, http, bumped>>

\* one insert_version_section before the lookup
InsertBeforeLookup ==
    /\ target = 0
    /\ Insert(MaxLookupInserts)

NextLookup == InsertBeforeLookup \/ GetVersionSection

SpecLookup == Init /\ [][NextLookup]_vars

\* The raw text handed to extract_entry (the changelog file as read)
InitEntry ==
    /\ elements = <<>>
    /\ before = elements
    /\ section = NoSection
    /\ raised = FALSE
    /\ inserts = 0
    /\ request = NoRequest
    /\ target = 0
    /\ extracted = <<>>
    /\ wanted = ""
    /\ found = NoSection
    /\ changelog \in Texts
    /\ entry = NoEntry
    /\ entries = <<>>
    /\ history = <<>>
    /\ http = NoCall
    /\ bumped = NoRelease

\* extract_entry(config, changelog, version), once per text
ExtractEntry ==
    /\ ~entry.called
    /\ \E config \in LookupConfigs, version \in LookupVersions :
        /\ wanted' = Rendered(config, version)
        /\ entry' = extract_entry(config, changelog, version)
    /\ UNCHANGED <<elements, before, section, raised, inserts, request, target,
                   extracted, found, changelog, entries, history, http, bumped>>

NextEntry == ExtractEntry

SpecEntry == InitEntry /\ [][NextEntry]_vars

\* changelog.insert_version_section(section) called again and again with the
\* same section; history keeps the blocks after each call
Reinsert ==
    /\ ~raised
    /\ Len(history) < MaxReinserts
    /\ \E sec \in Sections :
        /\ history # <<>> => sec = section
        /\ LET result == insert_version_section(elements, sec, 2)
           IN /\ elements' = result.elements
              /\ raised' = result.raised
              /\ section' = sec
              /\ history' = IF result.raised THEN history
                             ELSE Append(history, result.elements)
    /\ before' = elements
    /\ inserts' = inserts + 1
    /\ UNCHANGED <<request, target, extracted, wanted, found, changelog, entry, entries, http, bumped>>

NextReinsert == Reinsert

SpecReinsert == Init /\ [][NextReinsert]_vars

\* a call of _send_with_retry that has reached the while loop
InitRetry ==
    /\ elements = Changelog_new
    /\ before = elements
    /\ section = NoSection
    /\ raised = FALSE
    /\ inserts = 0
    /\ request = NoRequest
    /\ target = 0
    /\ extracted = <<>>
    /\ wanted = ""
    /\ found = NoSection
    /\ changelog = <<>>
    /\ entry = NoEntry
    /\ entries = <<>>
    /\ history = <<>>
    /\ http = StartCall
    /\ bumped = NoRelease

\* response = send(request, ...) and what the loop body does with its outcome
Send ==
    /\ http.pc = "send"
    /\ LET sent == [http EXCEPT !.log = Append(@, "send")]
       IN \/ \E response \in SendResponses : http' = OnResponse(sent, response)
          \/ \E exception \in SendExceptions : http' = OnException(sent, exception)
    /\ UNCHANGED <<elements, before, section, raised, inserts, request, target,
                   extracted, wanted, found, changelog, entry, entries, history, bumped>>

\* time.sleep(retry_seconds), then the loop goes round
Sleep ==
    /\ http.pc = "sleep"
    /\ http' = AfterSleep(http)
    /\ UNCHANGED <<elements, before, section, raised, inserts, request, target,
                   extracted, wanted, found, changelog, entry, entries, history, bumped>>

NextRetry == Send \/ Sleep

SpecRetry == InitRetry /\ [][NextRetry]_vars

\* the thread that runs the call keeps running: send and time.sleep return
SpecRetryFair == SpecRetry /\ WF_vars(NextRetry)

\* release is called: its option, configuration and pull requests
InitBump ==
    /\ elements = Changelog_new
    /\ before = elements
    /\ section = NoSection
    /\ raised = FALSE
    /\ inserts = 0
    /\ request = NoRequest
    /\ target = 0
    /\ extracted = <<>>
    /\ wanted = ""
    /\ found = NoSection
    /\ changelog = <<>>
    /\ entry = NoEntry
    /\ entries = <<>>
    /\ history = <<>>
    /\ http = NoCall
    /\ \E bump \in BumpTypes \cup {""}, major \in MajorLabels, minor \in MinorLabels :
        \E prs \in SeqsUpTo(BumpPullRequests, MaxBumpPullRequests) :
            bumped = Release_run(FALSE, bump, major, minor, prs, "")

\* release determines the bump type
DetectBump ==
    /\ ~bumped.called
    /\ bumped' = [bumped EXCEPT !.called = TRUE,
                                !.bump_type = bump_type(bumped.bump, bumped.major_labels,
                                                        bumped.minor_labels,
                                                        LabelsOf(bumped.pull_requests))]
    /\ UNCHANGED <<elements, before, section, raised, inserts, request, target,
                   extracted, wanted, found, changelog, entry, entries, history, http>>

NextBump == DetectBump

SpecBump == InitBump /\ [][NextBump]_vars

\* ------------------------------------------------------------- vocabulary
\* positions of the headings at the version level
LevelHeadings(els) == {p \in 1..Len(els) : IsHeading(els[p]) /\ els[p].level = 2}

\* positions of the version headings with the title v
Titled(els, v) == {p \in LevelHeadings(els) : els[p].children # <<>> /\ els[p].children[1] = v}

\* the parsed version of the heading at p (InvalidVersion when it has none)
VersionAt(els, p) ==
    IF els[p].children = <<>> THEN InvalidVersion ELSE Version(els[p].children[1])

Max(S) == CHOOSE x \in S : \A y \in S : x >= y

\* reading the version headings top to bottom gives strictly descending versions
Descending(els) ==
    /\ \A p \in LevelHeadings(els) : VersionAt(els, p) # InvalidVersion
    /\ \A p, q \in LevelHeadings(els) :
        p < q => VersionLt(VersionAt(els, q), VersionAt(els, p))

\* the blocks a section contributes to the document
NewBlocks(sec) ==
    <<sec.element, BlankLine>>
    \o (IF sec.children = <<>> THEN <<NoChanges, BlankLine>> ELSE sec.children)

\* els is `old` with the blocks of sec put in front of position at
SplicedAt(els, old, sec, at) ==
    els = SubSeq(old, 1, at - 1) \o NewBlocks(sec) \o SubSeq(old, at, Len(old))

\* insert_version_section has run and returned
Done == section # NoSection /\ ~raised

\* it took the insertion path: no heading had the version as title
Inserted == Done /\ Titled(before, section.version) = {}

\* it took the replacement path
Replaced == Done /\ Titled(before, section.version) # {}

\* the first heading with the version of the section, and the version
\* heading that follows it (or the end of the document)
ReplacedStart == Min(Titled(before, section.version))

ReplacedEnd ==
    Min({q \in LevelHeadings(before) : q > ReplacedStart} \cup {Len(before) + 1})

\* ------------------------------------------------------------------ claims
\* C1 (as claimed): from a document whose version headings are strictly
\* descending, inserting a parseable version that is not yet present leaves
\* the version headings strictly descending.
C1_DescendingOrder ==
    (Inserted /\ Descending(before) /\ Version(section.version) # InvalidVersion)
        => Descending(elements)

\* C2: replacing an existing version removes exactly the blocks from its
\* heading up to the next version heading, splices the new section where the
\* old heading was, and leaves every other block as it was.
C2_ReplaceInPlace ==
    Replaced =>
        elements = SubSeq(before, 1, ReplacedStart - 1)
                   \o NewBlocks(section)
                   \o SubSeq(before, ReplacedEnd, Len(before))

C2_Witness ==
    /\ Replaced
    /\ ReplacedStart > 1
    /\ ReplacedEnd > ReplacedStart + 1
    /\ ReplacedEnd <= Len(before)

\* C3: starting from Changelog.new(), the document never has two version
\* headings with the same version string.
C3_Uniqueness ==
    \A v \in VersionStrings : Cardinality(Titled(elements, v)) <= 1

C3_Witness ==
    /\ Replaced
    /\ inserts >= 2
    /\ Cardinality(LevelHeadings(elements)) >= 2

\* a is a subsequence of b
RECURSIVE IsSubseq(_, _)
IsSubseq(a, b) ==
    IF a = <<>> THEN TRUE
    ELSE IF b = <<>> THEN FALSE
    ELSE IF Head(a) = Head(b) THEN IsSubseq(Tail(a), Tail(b))
    ELSE IsSubseq(a, Tail(b))

\* the blocks of els at the positions in P, in order
RECURSIVE AtPositions(_, _, _)
AtPositions(els, P, p) ==
    IF p > Len(els) THEN <<>>
    ELSE (IF p \in P THEN <<els[p]>> ELSE <<>>) \o AtPositions(els, P, p + 1)

\* the first position after h that holds a heading of level <= bound, or the
\* position after the end
NextHeadingUpTo(els, h, bound) ==
    Min({q \in (h + 1)..Len(els) : IsHeading(els[q]) /\ els[q].level <= bound}
        \cup {Len(els) + 1})

\* the body of the replaced version as Section.from_elements delimits it: up
\* to the next heading at the version level or shallower
ReplacedBody ==
    IF Replaced
    THEN (ReplacedStart + 1)..(NextHeadingUpTo(before, ReplacedStart, 2) - 1)
    ELSE {}

\* the blocks of `before` that C4 says stay: headings at another level (those
\* of the replaced version's own body apart) and the non-heading blocks
\* before the first version heading
FramePositions ==
    {p \in 1..Len(before) :
        \/ IsHeading(before[p]) /\ before[p].level < 2
        \/ IsHeading(before[p]) /\ before[p].level > 2 /\ p \notin ReplacedBody
        \/ ~IsHeading(before[p]) /\ p < Min(LevelHeadings(before) \cup {Len(before) + 1})}

\* C4 (as claimed): the blocks of the frame are still in the document, in
\* their order, next to the blocks of the new section.
C4_Frame ==
    Done =>
        \E at \in 1..(Len(elements) + 1 - Len(NewBlocks(section))) :
            /\ SubSeq(elements, at, at + Len(NewBlocks(section)) - 1) = NewBlocks(section)
            /\ IsSubseq(AtPositions(before, FramePositions, 1),
                        SubSeq(elements, 1, at - 1)
                        \o SubSeq(elements, at + Len(NewBlocks(section)), Len(elements)))

\* C5 (as claimed): without a version heading the section goes after every
\* existing block.
C5_Append ==
    (Done /\ LevelHeadings(before) = {}) => elements = before \o NewBlocks(section)

\* the existing version headings that are older than the new section
Smaller ==
    {p \in LevelHeadings(before) :
        /\ VersionAt(before, p) # InvalidVersion
        /\ Version(section.version) # InvalidVersion
        /\ VersionLt(VersionAt(before, p), Version(section.version))}

\* the last non-blank block of the body of the last version section
LastBodyEnd ==
    IF LevelHeadings(before) = {} THEN 0
    ELSE LET h == Max(LevelHeadings(before))
         IN Max({h} \cup {q \in (h + 1)..(NextHeadingUpTo(before, h, 1) - 1) :
                              ~IsBlankMarker(before[q])})

\* C6 (as claimed): a new parseable version goes right before the first older
\* version heading, and after the body of the last version when none is older.
C6_InsertionPosition ==
    (/\ Inserted
     /\ Version(section.version) # InvalidVersion
     /\ \A p \in LevelHeadings(before) : VersionAt(before, p) # InvalidVersion)
        => IF Smaller # {}
           THEN SplicedAt(elements, before, section, Min(Smaller))
           ELSE \E at \in (LastBodyEnd + 1)..(Len(before) + 1) :
                    SplicedAt(elements, before, section, at)

Unparseable == {p \in LevelHeadings(before) : VersionAt(before, p) = InvalidVersion}

\* C8: the first unparseable version heading ends the scan: with no older
\* version before it, the section goes right before it, whatever follows.
C8_UnparseableBoundary ==
    (/\ Inserted
     /\ Version(section.version) # InvalidVersion
     /\ Unparseable # {}
     /\ \A p \in Smaller : p > Min(Unparseable))
        => SplicedAt(elements, before, section, Min(Unparseable))

C8_Witness ==
    /\ Inserted
    /\ Version(section.version) # InvalidVersion
    /\ Unparseable # {}
    /\ Smaller # {}
    /\ \A p \in Smaller : p > Min(Unparseable)
    /\ Min(Unparseable) > 1

\* the position of the heading of the section just inserted
NewHeading == Min({p \in 1..Len(elements) : elements[p] = section.element})

\* the body of the version just inserted: up to the next version heading
NewBody == (NewHeading + 1)..(NextHeadingUpTo(elements, NewHeading, 2) - 1)

\* the number of `No changes` markers in a block list
Markers(els) == Cardinality({p \in 1..Len(els) : els[p] = NoChanges})

\* C9 (as claimed): an empty section appears as heading, blank, marker, blank
\* and nothing else is in its body; a section with children adds no marker.
C9_EmptyReleaseMarker ==
    /\ (Done /\ section.children = <<>>) =>
          /\ NewHeading + 3 <= Len(elements)
          /\ SubSeq(elements, NewHeading + 1, NewHeading + 3)
                = <<BlankLine, NoChanges, BlankLine>>
          /\ \A p \in NewBody : elements[p] = NoChanges \/ IsBlankMarker(elements[p])
    /\ (Done /\ section.children # <<>>) => Markers(elements) <= Markers(before)

\* the blocks that are not blank-line markers
RECURSIVE NonBlank(_)
NonBlank(els) ==
    IF els = <<>> THEN <<>>
    ELSE (IF IsBlankMarker(Head(els)) THEN <<>> ELSE <<Head(els)>>) \o NonBlank(Tail(els))

\* the scenario of test_update_changelog: a new changelog, version 0.1.0,
\* the default configuration and the one pull request #1
Scenario ==
    /\ Done
    /\ before = Changelog_new
    /\ request.config = DefaultConfig
    /\ request.version = <<0, 1, 0>>
    /\ request.pull_requests = <<PullRequest("Test", 1, {}, "author")>>
    /\ request.only_sections = {}
    /\ request.without_sections = {}

\* C10 (as claimed): the scenario gives, blank-line markers apart, the title,
\* the version heading, "Other changes" with the entry of #1 and
\* "Contributors" with the mention of author, and no other block.
C10_EndToEnd ==
    Scenario =>
        NonBlank(elements) =
            <<Heading(1, <<"Changelog">>),
              Heading(2, <<"0.1.0">>),
              Heading(3, <<"Other changes">>),
              List(<<"- Test ([#1](https://github.com/owner/repo/pull/1))">>),
              Heading(3, <<"Contributors">>),
              List(<<"- [@author](https://github.com/author)">>)>>

\* ---------------------------------------------- claims on the built section
\* from_pull_requests has built the section of the request
Built == Done /\ request # NoRequest

\* the positions of the sub-headings of the built section
SubHeadings == {p \in 1..Len(section.children) : IsHeading(section.children[p])}

\* the names of the sub-sections of the built section, in order
SubSectionNames ==
    LET heads == AtPositions(section.children, SubHeadings, 1)
    IN [p \in 1..Len(heads) |-> heads[p].children[1]]

\* the entries listed under the sub-heading at position h: the items of the
\* list blocks up to the next sub-heading
RECURSIVE ItemsFrom(_, _)
ItemsFrom(children, p) ==
    IF p > Len(children) \/ IsHeading(children[p]) THEN <<>>
    ELSE (IF children[p].kind = "list" THEN children[p].children ELSE <<>>)
         \o ItemsFrom(children, p + 1)

\* the entries of the sub-section called name (none when it is absent)
Entries(name) ==
    LET at == {p \in SubHeadings : section.children[p].children[1] = name}
    IN IF at = {} THEN <<>> ELSE ItemsFrom(section.children, Min(at) + 1)

\* the number of times the entry of a pull request is listed in a sub-section
Occurrences(name, pull_request) ==
    Cardinality({p \in 1..Len(Entries(name)) : Entries(name)[p] = ChangeLine(pull_request)})

\* the names of the changes sections of the built section
BucketNames == Range(SubSectionNames) \ {"Contributors"}

\* the buckets that list the pull request
BucketsOf(pull_request) == {name \in BucketNames : Occurrences(name, pull_request) > 0}

\* the mapping section -> labels of the request, in configuration order
Mapping == MergeSectionLabels(request.config.section_labels, request.config.changelog_sections, 1)

\* the positions of the mapping whose labels intersect those of the record
Intersecting(pull_request) ==
    {k \in 1..Len(Mapping) : pull_request.labels \cap Range(Mapping[k].value) # {}}

\* the positions of the mapping that only_sections selects
Selected ==
    {k \in 1..Len(Mapping) :
        request.only_sections = {} \/ Mapping[k].key \in request.only_sections}

\* the record has a label that is ignored or excluded by without_sections
Excluded(pull_request) ==
    pull_request.labels
        \cap (request.config.changelog_ignore_labels \cup request.without_sections) # {}

\* the name of the fallback bucket
Fallback == IF Len(Mapping) > 0 THEN "Other changes" ELSE "Changes"

\* C11 (as claimed): a record is listed in at most one bucket, once, and a
\* record listed in a configured section is in the first section of the
\* mapping whose labels intersect its labels.
C11_FirstIntersecting ==
    Built =>
        \A pr \in Range(request.pull_requests) :
            /\ Cardinality(BucketsOf(pr)) <= 1
            /\ \A name \in BucketsOf(pr) :
                /\ Occurrences(name, pr) = 1
                /\ name \in Keys(Mapping) =>
                      /\ Intersecting(pr) # {}
                      /\ name = Mapping[Min(Intersecting(pr))].key

\* C11 (amended): ... in the first section of the mapping that only_sections
\* selects (every section when it is empty) and whose labels intersect.
C11_FirstSelectedIntersecting ==
    Built =>
        \A pr \in Range(request.pull_requests) :
            /\ Cardinality(BucketsOf(pr)) <= 1
            /\ \A name \in BucketsOf(pr) :
                /\ Occurrences(name, pr) = 1
                /\ name \in Keys(Mapping) =>
                      /\ Intersecting(pr) \cap Selected # {}
                      /\ name = Mapping[Min(Intersecting(pr) \cap Selected)].key
            /\ (~Excluded(pr) /\ Intersecting(pr) \cap Selected # {}) =>
                  BucketsOf(pr) = {Mapping[Min(Intersecting(pr) \cap Selected)].key}

\* a record with the labels of two sections, supplied twice, is listed once
\* under the first of them
C11_Witness ==
    /\ Built
    /\ Len(Mapping) >= 2
    /\ Len(request.pull_requests) = 2
    /\ request.pull_requests[1] = request.pull_requests[2]
    /\ Cardinality(Intersecting(request.pull_requests[1])) >= 2
    /\ BucketsOf(request.pull_requests[1]) = {Mapping[1].key}

\* C12: a record with a label in the ignored labels or in without_sections
\* is listed in no bucket, neither a configured section nor the fallback.
C12_WithoutFiltering ==
    Built =>
        \A pr \in Range(request.pull_requests) :
            Excluded(pr) =>
                /\ BucketsOf(pr) = {}
                /\ \A name \in Range(SubSectionNames) : Occurrences(name, pr) = 0

\* a record excluded by without_sections whose other label matches a
\* section that is not excluded, next to a record that is listed
C12_Witness ==
    /\ Built
    /\ request.without_sections # {}
    /\ BucketNames # {}
    /\ \E pr \in Range(request.pull_requests) :
        /\ pr.labels \cap request.without_sections # {}
        /\ pr.labels \cap request.config.changelog_ignore_labels = {}
        /\ \E k \in Intersecting(pr) \cap Selected :
              Range(Mapping[k].value) \cap request.without_sections = {}
        /\ BucketsOf(pr) = {}

\* C13: when only_sections is non-empty, a record whose labels match no
\* selected section is listed in no bucket, and never in the fallback one.
C13_OnlyOmission ==
    (Built /\ request.only_sections # {}) =>
        \A pr \in Range(request.pull_requests) :
            Intersecting(pr) \cap Selected = {} =>
                /\ BucketsOf(pr) = {}
                /\ Occurrences("Other changes", pr) = 0
                /\ Occurrences("Changes", pr) = 0

\* under a selection, a record with no matching label at all and a record
\* of a section that is not selected are both omitted
C13_Witness ==
    /\ Built
    /\ request.only_sections # {}
    /\ Len(Mapping) >= 2
    /\ \E pr \in Range(request.pull_requests) :
        /\ ~Excluded(pr)
        /\ Intersecting(pr) = {}
        /\ BucketsOf(pr) = {}
    /\ \E pr \in Range(request.pull_requests) :
        /\ ~Excluded(pr)
        /\ Intersecting(pr) # {}
        /\ Intersecting(pr) \cap Selected = {}
        /\ BucketsOf(pr) = {}

\* the request of test_update_changelog_only_sections: the sections
\* {a: A, b: B}, only_sections = {b}, records labelled a or b
OnlySectionsTest ==
    /\ request # NoRequest
    /\ request.config.changelog_sections
          = <<[key |-> "a", value |-> "A"], [key |-> "b", value |-> "B"]>>
    /\ request.config.section_labels = <<>>
    /\ request.only_sections = {"b"}
    /\ request.without_sections = {}
    /\ \E pr \in Range(request.pull_requests) : pr.labels = {"b"}
    /\ \A pr \in Range(request.pull_requests) : pr.labels \in {{"a"}, {"b"}}

\* C14: with the sections {a: A, b: B} and only_sections = {b}, the records
\* labelled b are listed under section B, the records labelled a are
\* omitted, and B is the only changes section.
C14_OnlyInclusion ==
    OnlySectionsTest =>
        /\ Built
        /\ BucketNames = {"B"}
        /\ Range(Entries("B"))
              = {ChangeLine(pr) : pr \in {x \in Range(request.pull_requests) : x.labels = {"b"}}}

\* the records that reach the else of the section loop
Unmatched ==
    {pr \in Range(request.pull_requests) : ~Excluded(pr) /\ Intersecting(pr) = {}}

\* C15: when only_sections is empty the build does not fail, and every
\* record that is not skipped and matches no section is listed in exactly
\* one bucket: "Other changes" when a section is configured, "Changes" when
\* none is, the unknown bucket of the configuration when it names one.
C15_FallbackBucket ==
    (request # NoRequest /\ request.only_sections = {}) =>
        /\ Built
        /\ \A pr \in Unmatched :
            /\ Cardinality(BucketsOf(pr)) = 1
            /\ "__unknown__" \notin Keys(Mapping) => BucketsOf(pr) = {Fallback}

\* the authors of the input records that are not ignored
Eligible ==
    {pr.author : pr \in Range(request.pull_requests)}
        \ request.config.changelog_ignore_authors

\* the entry of an author in the Contributors section
ContributorLine(author) ==
    "- [@" \o author \o "](https://github.com/" \o author \o ")"

\* the number of sub-sections of the built section called name
Headed(name) ==
    Cardinality({p \in 1..Len(SubSectionNames) : SubSectionNames[p] = name})

\* C16: the Contributors section is present iff contributors are enabled
\* and some input record has an author that is not ignored, and it lists
\* each such author once, over all input records, skipped ones included.
C16_Contributors ==
    Built =>
        LET contributors == Entries("Contributors")
        IN /\ Headed("Contributors") =
                 (IF request.config.changelog_contributors /\ Eligible # {} THEN 1 ELSE 0)
           /\ Headed("Contributors") = 1 =>
                 /\ Range(contributors) = {ContributorLine(author) : author \in Eligible}
                 /\ Len(contributors) = Cardinality(Eligible)

\* the author of a record that was skipped is listed, the ignored author of
\* another record is not
C16_Witness ==
    /\ Built
    /\ Headed("Contributors") = 1
    /\ \E pr \in Range(request.pull_requests) :
        /\ pr.author \in Eligible
        /\ Excluded(pr)
        /\ BucketsOf(pr) = {}
        /\ \A other \in Range(request.pull_requests) : other.author = pr.author => other = pr
    /\ \E pr \in Range(request.pull_requests) :
          pr.author \in request.config.changelog_ignore_authors

\* the author of an entry of the Contributors section
AuthorOf(line) == CHOOSE author \in Eligible : ContributorLine(author) = line

\* C17: the entries of the Contributors section are in ascending order of
\* author, whatever the set of authors.
C17_ContributorsSorted ==
    (Built /\ Headed("Contributors") = 1) =>
        LET contributors == Entries("Contributors")
        IN \A p, q \in 1..Len(contributors) :
              p < q => StrLt(AuthorOf(contributors[p]), AuthorOf(contributors[q]))

\* the record of an entry of a changes section
RecordOf(line) == CHOOSE pr \in PullRequests : ChangeLine(pr) = line

\* C18: the entries of each changes section are in ascending order of
\* title, and entries of equal titles in ascending order of number.
C18_EntryOrder ==
    Built =>
        \A name \in BucketNames :
            \A p, q \in 1..Len(Entries(name)) :
                p < q =>
                    LET x == RecordOf(Entries(name)[p])
                        y == RecordOf(Entries(name)[q])
                    IN \/ StrLt(x.title, y.title)
                       \/ x.title = y.title /\ x.number < y.number

\* two records of the same title, supplied in descending order of number,
\* are listed in one changes section
C18_Witness ==
    /\ Built
    /\ Len(request.pull_requests) >= 2
    /\ request.pull_requests[1].title = request.pull_requests[2].title
    /\ request.pull_requests[1].number > request.pull_requests[2].number
    /\ \E name \in BucketNames :
        /\ Occurrences(name, request.pull_requests[1]) = 1
        /\ Occurrences(name, request.pull_requests[2]) = 1

\* the release-date line expected for the dates of the requests
ReleaseDateLine ==
    IF request.release_date = Date(2024, 1, 2) THEN "Released on 2024-01-02."
    ELSE IF request.release_date = Date(2023, 11, 30) THEN "Released on 2023-11-30."
    ELSE ""

\* the sub-section names in the order of the buckets: the mapping, the
\* fallback, the contributors
BucketOrder ==
    [k \in 1..Len(Mapping) |-> Mapping[k].key] \o <<Fallback, "Contributors">>

\* the position of a sub-section name in that order
OrderOf(name) == Min({k \in 1..Len(BucketOrder) : BucketOrder[k] = name})

Extracted == target # 0

\* the positions of the headings that open a section at the target level
Opening ==
    {p \in 1..Len(elements) :
        /\ IsHeading(elements[p])
        /\ elements[p].level = target
        /\ elements[p].children # <<>>}

\* the positions of the headings shallower than the target level
Shallower ==
    {p \in 1..Len(elements) : IsHeading(elements[p]) /\ elements[p].level < target}

\* the positions of the non-blank blocks and of the deeper headings
Appendable ==
    {p \in 1..Len(elements) :
        IF IsHeading(elements[p]) THEN elements[p].level > target
        ELSE elements[p].kind # "blank_line"}

\* the section open at position p: the last opening heading before p, when
\* no shallower heading lies between the two; 0 when there is none
OpenAt(p) ==
    LET opened == {h \in Opening : h < p}
    IN IF opened = {} THEN 0
       ELSE IF \E q \in Shallower : Max(opened) < q /\ q < p THEN 0
       ELSE Max(opened)

\* the positions of the blocks that belong to the section opened at h
Scope(h) == {p \in Appendable : OpenAt(p) = h}

\* C20: the returned sections are those of the opening headings, in input
\* order; the children of each are the non-blank blocks and deeper headings
\* whose open section it is, in input order; a block with no open section
\* is in no section, and no block is in two sections.
C20_SectionScoping ==
    Extracted =>
        LET opening == AtPositions(elements, Opening, 1)
        IN /\ Len(extracted) = Len(opening)
           /\ \A k \in 1..Len(extracted) :
                LET h == CHOOSE p \in Opening : Cardinality({q \in Opening : q <= p}) = k
                IN /\ extracted[k].element = elements[h]
                   /\ extracted[k].children = AtPositions(elements, Scope(h), 1)
           /\ \A h1, h2 \in Opening : h1 # h2 => Scope(h1) \cap Scope(h2) = {}
           /\ \A p \in Appendable : OpenAt(p) = 0 => \A h \in Opening : p \notin Scope(h)

\* a block is kept by the section opened before it, and a later block is
\* dropped because a shallower heading closed that section
C20_Witness ==
    /\ Extracted
    /\ Len(extracted) >= 1
    /\ \E h \in Opening : Scope(h) # {}
    /\ \E p \in Appendable :
        /\ OpenAt(p) = 0
        /\ \E h \in Opening : h < p

\* ------------------------------------------------- claims on the lookup
\* the lookup ran after insert_version_section(section) returned
LookedUpInserted == target # 0 /\ Done /\ wanted = section.version

\* C21: no section returned by Section.from_elements has a blank-line
\* marker among its children, also when the blocks are those of a changelog
\* into which insert_version_section has just spliced its markers.
C21_MarkersDropped ==
    target # 0 =>
        \A k \in 1..Len(extracted) :
            \A p \in 1..Len(extracted[k].children) :
                ~IsBlankMarker(extracted[k].children[p])

\* C22: get_version_section returns None when no heading at level 2 has the
\* version as title; after insert_version_section(s) the lookup of the
\* version of s returns a section with that version whose non-blank children
\* are the non-blank children of s, in order.
C22_LookupAfterMerge ==
    /\ (target # 0 /\ Titled(elements, wanted) = {}) => found = NoSection
    /\ LookedUpInserted =>
        /\ found # NoSection
        /\ found.version = section.version
        /\ NonBlank(found.children) = NonBlank(section.children)

\* ---------------------------------------------------- claims on extract_entry
\* the positions at which a line of the text starts
LineStarts ==
    {1} \cup {i + 1 : i \in {j \in 1..(Len(changelog) - 1) : changelog[j] = NewLine}}

\* the positions of the heading lines of the version v
HeadingLines(v) ==
    {i \in LineStarts :
        /\ i + Len(VersionLine(v)) <= Len(changelog)
        /\ SubSeq(changelog, i, i + Len(VersionLine(v))) = VersionLine(v) \o <<NewLine>>}

\* the version strings that have a heading line in the text
Headed23 == {v \in VersionStrings : Version(v) # InvalidVersion /\ HeadingLines(v) # {}}

\* the versions of the text that precede the wanted one
Preceding == {v \in Headed23 : VersionLt(Version(v), Version(wanted))}

\* the version immediately preceding the wanted one
Predecessor == CHOOSE v \in Preceding : \A w \in Preceding : ~VersionLt(Version(v), Version(w))

\* the text has the heading of the wanted version, followed by an empty
\* line, and the heading of its predecessor, if any, comes after it
EntryCase ==
    /\ entry.called
    /\ Find(VersionLine(wanted) \o <<NewLine, NewLine>>, changelog) # 0
    /\ HeadingLines(wanted) # {}
    /\ Preceding # {} => Min(HeadingLines(Predecessor)) > Min(HeadingLines(wanted))

\* C23: for a text with the heading of the version, extract_entry returns the
\* text from that heading up to the heading of the version that precedes it
\* among the headings of the text, or up to the end of the text.
C23_RawEntry ==
    EntryCase =>
        LET start == Min(HeadingLines(wanted))
            end == IF Preceding # {} THEN Min(HeadingLines(Predecessor))
                   ELSE Len(changelog) + 1
        IN /\ ~entry.raised
           /\ entry.returned
           /\ entry.text = SubSeq(changelog, start, end - 1)

\* ----------------------------------------------------- claims on all_entries
\* all_entries ran on the version section whose children are `elements`
Listed == target # 0 /\ section # NoSection

\* the positions of the list blocks that are in a sub-section
ListedBlocks == {p \in Appendable : elements[p].kind = "list" /\ OpenAt(p) # 0}

\* the items of the list blocks at the positions P, in document order
RECURSIVE ItemsAt(_, _)
ItemsAt(P, p) ==
    IF p > Len(elements) THEN <<>>
    ELSE (IF p \in P THEN elements[p].children ELSE <<>>) \o ItemsAt(P, p + 1)

\* C24: all_entries yields one Entry per item of every list block that is a
\* child of a section nested one level below the version heading, in
\* document order; a list block before any sub-heading yields none.
C24_AllEntries ==
    Listed => entries = ItemsAt(ListedBlocks, 1)

\* a list before the first sub-heading is left out, the two items of a list
\* under a deeper heading of a sub-section are listed
C24_Witness ==
    /\ Listed
    /\ Len(entries) = 2
    /\ \E p \in 1..Len(elements) : elements[p].kind = "list" /\ OpenAt(p) = 0
    /\ \E p \in ListedBlocks, q \in 1..Len(elements) :
        /\ q < p
        /\ IsHeading(elements[q]) /\ elements[q].level = 4
        /\ OpenAt(q) = OpenAt(p)

\* ------------------------------------------------ claims on an empty release
\* the section was built from no record, or from records that are all
\* filtered out, and was inserted
EmptyRelease ==
    /\ Built
    /\ \A pr \in Range(request.pull_requests) : BucketsOf(pr) = {}

\* C25: the body of an empty release, once inserted, contains the
\* `<!-- No changes -->` marker.
C25_EmptyReleaseVisible ==
    EmptyRelease => \E p \in NewBody : elements[p] = NoChanges

\* ------------------------------------------------------ claims on the merge
\* C26: insert_version_section never raises, whatever the document and the
\* section, also with an empty heading at the version level or with titles
\* that are no versions.
C26_MergeNeverFails == ~raised

\* C27: calling insert_version_section twice in a row with the same section
\* gives the blocks of calling it once, up to blank-line markers, and a
\* third call changes nothing at all.
C27_Idempotent ==
    /\ Len(history) >= 2 => NonBlank(history[2]) = NonBlank(history[1])
    /\ Len(history) >= 3 => history[3] = history[2]

\* the sends of a call and its sleeps, in order
Sends(h) == {i \in 1..Len(h.log) : h.log[i] = "send"}

Sleeps(h) == {i \in 1..Len(h.log) : h.log[i] = "sleep"}

\* the call is over
Terminated == http.pc = "done"

\* every sleep is directly between two sends
SleepsBetweenSends ==
    /\ \A i \in Sleeps(http) : i > 1 /\ http.log[i - 1] = "send"
    /\ \A i \in Sleeps(http) : i < Len(http.log) => http.log[i + 1] = "send"
    /\ Terminated /\ http.log # <<>> => http.log[Len(http.log)] = "send"

\* the assertion after the loop failed
AssertionFailed == http.result = Raised("AssertionError")

\* C28: a call of _send_with_retry makes at most MAX_RETRIES + 1 = 6 sends,
\* every sleep lies between two sends (none after the last send), the
\* assertion after the loop never fails, and the call terminates.
C28_RetryBound ==
    /\ [](Cardinality(Sends(http)) <= MAX_RETRIES + 1)
    /\ [](SleepsBetweenSends)
    /\ [](~AssertionFailed)
    /\ <>Terminated

\* a call that used all its sends and slept between them
C28_Witness ==
    /\ Terminated
    /\ Cardinality(Sends(http)) = MAX_RETRIES + 1
    /\ Cardinality(Sleeps(http)) = MAX_RETRIES

\* the outcome of a send is retryable
Retryable(outcome) ==
    \/ outcome.kind = "response" /\ outcome.response.status \in RetryCodes
    \/ outcome.kind = "exception" /\ outcome.exception \in RetryExceptions

\* C29: the call stops at the first send whose outcome is not retryable or
\* at the sixth send, and its result is the outcome of that last send; status
\* and exception failures share one budget (try_count counts both).
C29_RetryOutcome ==
    /\ Terminated =>
        /\ http.result = http.last
        /\ ~Retryable(http.last) \/ Cardinality(Sends(http)) = MAX_RETRIES + 1
    /\ ~Terminated /\ http.last # NoOutcome => Retryable(http.last)
    /\ Cardinality(Sends(http)) <= MAX_RETRIES + 1

\* some pull request of the run carries a label of the set
Carries(label_set) ==
    \E i \in 1..Len(bumped.pull_requests) : bumped.pull_requests[i].labels \cap label_set # {}

\* C30: when release is called without a bump type, the bump type is major
\* if any pull request carries a major label (also when one carries a minor
\* label), otherwise minor if any carries a minor label, otherwise patch.
C30_BumpDetection ==
    bumped.called /\ bumped.bump = "" =>
        bumped.bump_type =
            IF Carries(bumped.major_labels) THEN "major"
            ELSE IF Carries(bumped.minor_labels) THEN "minor"
            ELSE "patch"

====
